---- MODULE Spec2Model ----
(***************************************************************************)
(* Model of src/virt-viewer-util.c (virt-viewer).                          *)
(*                                                                         *)
(* Part 1: virt_viewer_signal_connect_object and the three teardown        *)
(* callbacks of a WeakHandlerCtx (instance_destroyed_cb,                   *)
(* observer_destroyed_cb, closure_invalidated_cb), together with the       *)
(* GObject services they call: weak references, signal handlers and        *)
(* closure invalidate notifiers.                                           *)
(*                                                                         *)
(* Part 2: virt_viewer_compare_version on character strings.               *)
(*                                                                         *)
(* Part 3: virt_viewer_align_monitors_linear and                           *)
(* virt_viewer_shift_monitors_to_origin on an array of GdkRectangle.       *)
(*                                                                         *)
(* Part 4: virt_viewer_util_extract_host on character strings, with the    *)
(* URI parser it calls.                                                    *)
(*                                                                         *)
(* The program is single threaded: every entry point (connect, emit,       *)
(* disconnect, dispose of an object) runs to completion, including every   *)
(* callback it triggers, so each is one action whose result is computed    *)
(* by operators on a record of the whole heap.                             *)
(***************************************************************************)
EXTENDS Integers, Sequences, FiniteSets

\* ------------------------------------------------------------------ bounds
NObj == 2            \* GObjects that exist at start
MaxCtx == 2          \* calls of virt_viewer_signal_connect_object
MaxArgCalls == 1     \* calls of it when every argument value is tried
MaxComponents == 2   \* components of a version string
MaxDisplays == 2     \* rectangles in the displays array

\* --------------------------------------------------------------- constants
NULL == 0
G_CONNECT_AFTER == 1
G_CONNECT_SWAPPED == 2
OtherFlagBit == 4    \* a GConnectFlags bit outside AFTER|SWAPPED
Callback == 1        \* the address of the caller's handler function

Obj == 1..NObj
Ctx == 1..MaxCtx
Signals == {"sigA", "sigB"}          \* the signals every object's class has
BogusSignal == "bogus"               \* a name no class has
NullSignal == "(null)"               \* detailed_signal = NULL
FlagBits == {G_CONNECT_AFTER, G_CONNECT_SWAPPED, OtherFlagBit}
Flags == 0..(G_CONNECT_AFTER + G_CONNECT_SWAPPED + OtherFlagBit)

HasBit(flags, bit) == (flags \div bit) % 2 = 1

VARIABLES
    alive,      \* alive[o]: the GObject o has not been disposed
    weak,       \* weak[o]: the weak references of o, <<[cb, ctx]>> in order
    handlers,   \* handlers[o]: the signal handlers connected on o, in order
    watched,    \* watched[o]: closures in o's closure array (g_object_watch_closure)
    closures,   \* closures[k]: the GClosure of registration k
    heap,       \* heap[c]: the WeakHandlerCtx c and its allocation state
    nfree,      \* nfree[c]: times whc_free ran on c
    ran,        \* ran[c]: the teardown callbacks that ran with ctx c, in order
    steps,      \* steps[c]: what those callbacks did, in order
    faults,     \* misuse the run-time would report or crash on
    seq,        \* g_handler_sequential_number
    last,       \* what the last operation was and what it returned / invoked
    v1str, v2str, \* the arguments of virt_viewer_compare_version
    vret,       \* its return value
    vpc,        \* "start" before the call, "done" after it
    displays,   \* the GdkRectangle array (index 1 is displays[0])
    displays_in, \* the array as the caller passed it
    mpc,        \* "start", then "aligned" or "shifted"
    uristr,     \* the argument of virt_viewer_util_extract_host
    uri_out,    \* what its five out parameters point to
    uret,       \* its return value
    upc         \* "start" before the call, "done" after it

rvars == <<alive, weak, handlers, watched, closures, heap, nfree, ran, steps,
           faults, seq, last>>
vvars == <<v1str, v2str, vret, vpc>>
mvars == <<displays, displays_in, mpc>>
uvars == <<uristr, uri_out, uret, upc>>
vars == <<alive, weak, handlers, watched, closures, heap, nfree, ran, steps,
          faults, seq, last, v1str, v2str, vret, vpc, displays, displays_in,
          mpc, uristr, uri_out, uret, upc>>

\* ----------------------------------------------------------- the heap record
\* The operators below transform a record s of these variables.
Cur == [alive |-> alive, weak |-> weak, handlers |-> handlers,
        watched |-> watched, closures |-> closures, heap |-> heap,
        nfree |-> nfree, ran |-> ran, steps |-> steps, faults |-> faults,
        seq |-> seq]

Commit(s) ==
    /\ alive' = s.alive
    /\ weak' = s.weak
    /\ handlers' = s.handlers
    /\ watched' = s.watched
    /\ closures' = s.closures
    /\ heap' = s.heap
    /\ nfree' = s.nfree
    /\ ran' = s.ran
    /\ steps' = s.steps
    /\ faults' = s.faults
    /\ seq' = s.seq

Fault(s, what) == [s EXCEPT !.faults = @ \cup {what}]

ValidObj(s, o) == o \in Obj /\ s.alive[o]

\* the sequence q without its i-th element
RemoveAt(q, i) == [j \in 1..(Len(q) - 1) |-> IF j < i THEN q[j] ELSE q[j + 1]]

\* the first index of q whose element satisfies Test, 0 when there is none
FirstIndex(q, Test(_)) ==
    IF \E i \in 1..Len(q) : Test(q[i])
    THEN CHOOSE i \in 1..Len(q) : Test(q[i]) /\ \A j \in 1..(i - 1) : ~Test(q[j])
    ELSE 0

NoCtx == [state |-> "unalloc", instance |-> NULL, observer |-> NULL,
          closure |-> NULL, handler_id |-> 0]
NoClosure == [state |-> "none", data |-> NULL, swapped |-> FALSE,
              invalid |-> FALSE, refs |-> 0, inotifiers |-> <<>>]
FinalizedClosure == [NoClosure EXCEPT !.state = "finalized"]
NoLast == [op |-> "none", obj |-> NULL, signal |-> "", ctx |-> NULL, ret |-> 0,
           valid |-> FALSE, invoked |-> <<>>]

\* ------------------------------------------------- WeakHandlerCtx allocation
whc_new(s, c, instance, observer) ==
    [s EXCEPT !.heap[c] = [state |-> "alloc", instance |-> instance,
                           observer |-> observer, closure |-> NULL,
                           handler_id |-> 0]]

\* g_slice_free: nothing of the record may be read afterwards
FreedCtx == [NoCtx EXCEPT !.state = "freed"]

whc_free(s, c) ==
    LET t == [s EXCEPT !.nfree[c] = @ + 1, !.heap[c] = FreedCtx]
    IN IF s.heap[c].state = "alloc" THEN t ELSE Fault(t, "double free")

\* ------------------------------------------------------- GObject weak refs
g_object_weak_ref(s, o, cb, c) ==
    IF ~ValidObj(s, o) THEN Fault(s, "weak_ref on an invalid object")
    ELSE [s EXCEPT !.weak[o] = Append(@, [cb |-> cb, ctx |-> c])]

\* g_object_weak_unref matching the callback alone, whatever the data
g_object_weak_unref_AnyData(s, o, cb, c) ==
    LET Match(w) == w.cb = cb
    IN IF ~ValidObj(s, o) THEN Fault(s, "weak_unref on an invalid object")
       ELSE LET i == FirstIndex(s.weak[o], Match)
            IN IF i = 0 THEN Fault(s, "weak_unref: weak ref not found")
               ELSE [s EXCEPT !.weak[o] = RemoveAt(@, i)]

\* Removes the first matching weak reference; warns when there is none.
\* While o notifies its weak references its list is already detached, so
\* nothing is found then.
g_object_weak_unref(s, o, cb, c) ==
    LET Match(w) == w.cb = cb /\ w.ctx = c
    IN IF ~ValidObj(s, o) THEN Fault(s, "weak_unref on an invalid object")
       ELSE LET i == FirstIndex(s.weak[o], Match)
            IN IF i = 0 THEN Fault(s, "weak_unref: weak ref not found")
               ELSE [s EXCEPT !.weak[o] = RemoveAt(@, i)]

\* ------------------------------------------------------- closure notifiers
g_closure_add_invalidate_notifier(s, k, data, fn) ==
    IF s.closures[k].state # "live"
    THEN Fault(s, "add_invalidate_notifier on an invalid closure")
    ELSE [s EXCEPT !.closures[k].inotifiers = Append(@, [fn |-> fn, data |-> data])]

\* closure_try_remove_inotify: the last notifier takes the place of the one
\* removed.
RemoveNotifier(q, i) ==
    LET n == Len(q)
    IN [j \in 1..(n - 1) |-> IF j = i THEN q[n] ELSE q[j]]

NotifierIndex(s, k, data, fn) ==
    LET Match(x) == x.fn = fn /\ x.data = data
    IN FirstIndex(s.closures[k].inotifiers, Match)

g_closure_remove_invalidate_notifier(s, k, data, fn) ==
    IF k = NULL \/ s.closures[k].state # "live"
    THEN Fault(s, "remove_invalidate_notifier on an invalid closure")
    ELSE LET i == NotifierIndex(s, k, data, fn)
         IN IF i = 0 THEN Fault(s, "remove_invalidate_notifier: notifier not found")
            ELSE [s EXCEPT !.closures[k].inotifiers = RemoveNotifier(@, i)]

\* the same, silent when the notifier is not there (remove_invalid_closure_notify
\* and destroy_closure_array run it for a notifier that may have run already)
DropNotifier(s, k, data, fn) ==
    LET i == NotifierIndex(s, k, data, fn)
    IN IF i = 0 THEN s
       ELSE [s EXCEPT !.closures[k].inotifiers = RemoveNotifier(@, i)]

\* --------------------------------------------------- the teardown callbacks
Enter(s, cb, c) ==
    LET t == [s EXCEPT !.ran[c] = Append(@, cb)]
    IN IF s.heap[c].state = "alloc" THEN t ELSE Fault(t, "use after free")

Step(s, c, what) == [s EXCEPT !.steps[c] = Append(@, what)]

\* closure_invalidated_cb without the whc_free
closure_invalidated_cb_NoFree(s, c) ==
    LET ctx == s.heap[c]
        s0 == Enter(s, "closure_invalidated_cb", c)
        s1 == g_object_weak_unref(Step(s0, c, "unwatch instance"),
                                  ctx.instance, "instance_destroyed_cb", c)
    IN g_object_weak_unref(Step(s1, c, "unwatch observer"),
                           ctx.observer, "observer_destroyed_cb", c)

\* Triggered when either object is destroyed or the handler is disconnected.
closure_invalidated_cb(s, c) ==
    LET ctx == s.heap[c]
        s0 == Enter(s, "closure_invalidated_cb", c)
        s1 == g_object_weak_unref(Step(s0, c, "unwatch instance"),
                                  ctx.instance, "instance_destroyed_cb", c)
        s2 == g_object_weak_unref(Step(s1, c, "unwatch observer"),
                                  ctx.observer, "observer_destroyed_cb", c)
    IN whc_free(Step(s2, c, "free"), c)

\* ------------------------------------------- closures and signal handlers
RECURSIVE g_closure_unref(_, _)
RECURSIVE InvokeINotifiers(_, _)

\* g_closure_invalidate: holds a reference while the invalidate notifiers run
g_closure_invalidate(s, k) ==
    IF s.closures[k].invalid THEN s
    ELSE LET s1 == [s EXCEPT !.closures[k].refs = @ + 1,
                             !.closures[k].invalid = TRUE]
         IN g_closure_unref(InvokeINotifiers(s1, k), k)

\* g_closure_unref: dropping the last reference invalidates, then finalizes
g_closure_unref(s, k) ==
    LET s1 == IF s.closures[k].refs = 1 THEN g_closure_invalidate(s, k) ELSE s
        n == s1.closures[k].refs - 1
    IN IF n = 0 THEN [s1 EXCEPT !.closures[k] = FinalizedClosure]
       ELSE [s1 EXCEPT !.closures[k].refs = n]

\* handler_unref_R on a handler h already taken off its instance's list
HandlerUnref(s, o, h) ==
    g_closure_unref(DropNotifier(s, h.closure, o, "invalid_closure_notify"),
                    h.closure)

\* invalid_closure_notify: the handler of an invalidated closure is removed
invalid_closure_notify(s, o, k) ==
    LET Match(h) == h.closure = k
        i == FirstIndex(s.handlers[o], Match)
    IN IF i = 0 THEN Fault(s, "invalid_closure_notify: no handler")
       ELSE HandlerUnref([s EXCEPT !.handlers[o] = RemoveAt(@, i)], o,
                         s.handlers[o][i])

\* object_remove_closure: the closure leaves its object's closure array
object_remove_closure(s, o, k) == [s EXCEPT !.watched[o] = @ \ {k}]

RunNotifier(s, k, n) ==
    CASE n.fn = "closure_invalidated_cb" -> closure_invalidated_cb(s, n.data)
      [] n.fn = "invalid_closure_notify" -> invalid_closure_notify(s, n.data, k)
      [] n.fn = "object_remove_closure" -> object_remove_closure(s, n.data, k)

\* closure_invoke_notifiers(INOTIFIERS): last added first, each one taken off
\* the list before it runs
InvokeINotifiers(s, k) ==
    LET q == s.closures[k].inotifiers
    IN IF q = <<>> THEN s
       ELSE LET s1 == [s EXCEPT !.closures[k].inotifiers = SubSeq(q, 1, Len(q) - 1)]
            IN InvokeINotifiers(RunNotifier(s1, k, q[Len(q)]), k)

g_signal_handler_disconnect(s, o, id) ==
    LET Match(h) == h.id = id
    IN IF ~ValidObj(s, o) THEN Fault(s, "handler_disconnect on an invalid instance")
       ELSE LET i == IF id = 0 THEN 0 ELSE FirstIndex(s.handlers[o], Match)
            IN IF i = 0 THEN Fault(s, "handler_disconnect: no handler with this id")
               ELSE HandlerUnref([s EXCEPT !.handlers[o] = RemoveAt(@, i)], o,
                                 s.handlers[o][i])

\* instance_destroyed_cb leaving the observer's weak reference in place
instance_destroyed_cb_KeepObserverWatch(s, c) ==
    LET ctx == s.heap[c]
        s0 == Enter(s, "instance_destroyed_cb", c)
        s2 == g_closure_remove_invalidate_notifier(
                  Step(s0, c, "unwatch closure"),
                  ctx.closure, c, "closure_invalidated_cb")
    IN whc_free(Step(s2, c, "free"), c)

\* instance_destroyed_cb disconnecting the handler from the instance that is
\* going away
instance_destroyed_cb_Disconnects(s, c) ==
    LET ctx == s.heap[c]
        s0 == Enter(s, "instance_destroyed_cb", c)
        s1 == g_object_weak_unref(Step(s0, c, "unwatch observer"),
                                  ctx.observer, "observer_destroyed_cb", c)
        s2 == g_closure_remove_invalidate_notifier(
                  Step(s1, c, "unwatch closure"),
                  ctx.closure, c, "closure_invalidated_cb")
        s3 == g_signal_handler_disconnect(Step(s2, c, "disconnect"),
                                          ctx.instance, ctx.handler_id)
    IN whc_free(Step(s3, c, "free"), c)

\* No need to disconnect the signal here, the instance has gone away.
instance_destroyed_cb(s, c) ==
    LET ctx == s.heap[c]
        s0 == Enter(s, "instance_destroyed_cb", c)
        s1 == g_object_weak_unref(Step(s0, c, "unwatch observer"),
                                  ctx.observer, "observer_destroyed_cb", c)
        s2 == g_closure_remove_invalidate_notifier(
                  Step(s1, c, "unwatch closure"),
                  ctx.closure, c, "closure_invalidated_cb")
    IN whc_free(Step(s2, c, "free"), c)

\* observer_destroyed_cb leaving the emitter's weak reference in place
observer_destroyed_cb_KeepInstanceWatch(s, c) ==
    LET ctx == s.heap[c]
        s0 == Enter(s, "observer_destroyed_cb", c)
        s1 == g_closure_remove_invalidate_notifier(
                  Step(s0, c, "unwatch closure"),
                  ctx.closure, c, "closure_invalidated_cb")
        s2 == g_signal_handler_disconnect(Step(s1, c, "disconnect"),
                                          ctx.instance, ctx.handler_id)
    IN whc_free(Step(s2, c, "free"), c)

\* observer_destroyed_cb disconnecting the handler before it removes the
\* invalidate notifier
observer_destroyed_cb_DisconnectFirst(s, c) ==
    LET ctx == s.heap[c]
        s0 == Enter(s, "observer_destroyed_cb", c)
        s1 == g_signal_handler_disconnect(Step(s0, c, "disconnect"),
                                          ctx.instance, ctx.handler_id)
        s2 == g_closure_remove_invalidate_notifier(
                  Step(s1, c, "unwatch closure"),
                  ctx.closure, c, "closure_invalidated_cb")
        s3 == g_object_weak_unref(Step(s2, c, "unwatch instance"),
                                  ctx.instance, "instance_destroyed_cb", c)
    IN whc_free(Step(s3, c, "free"), c)

\* observer_destroyed_cb leaving the invalidate notifier in place
observer_destroyed_cb_KeepInvalidateWatch(s, c) ==
    LET ctx == s.heap[c]
        s0 == Enter(s, "observer_destroyed_cb", c)
        s2 == g_signal_handler_disconnect(Step(s0, c, "disconnect"),
                                          ctx.instance, ctx.handler_id)
        s3 == g_object_weak_unref(Step(s2, c, "unwatch instance"),
                                  ctx.instance, "instance_destroyed_cb", c)
    IN whc_free(Step(s3, c, "free"), c)

\* Triggered when the observer is destroyed.
observer_destroyed_cb(s, c) ==
    LET ctx == s.heap[c]
        s0 == Enter(s, "observer_destroyed_cb", c)
        s1 == g_closure_remove_invalidate_notifier(
                  Step(s0, c, "unwatch closure"),
                  ctx.closure, c, "closure_invalidated_cb")
        s2 == g_signal_handler_disconnect(Step(s1, c, "disconnect"),
                                          ctx.instance, ctx.handler_id)
        s3 == g_object_weak_unref(Step(s2, c, "unwatch instance"),
                                  ctx.instance, "instance_destroyed_cb", c)
    IN whc_free(Step(s3, c, "free"), c)

\* -------------------------------------------------- disposing of a GObject
\* g_signal_handlers_destroy: every handler of o, in list order
RECURSIVE g_signal_handlers_destroy(_, _)
g_signal_handlers_destroy(s, o) ==
    IF s.handlers[o] = <<>> THEN s
    ELSE g_signal_handlers_destroy(
             HandlerUnref([s EXCEPT !.handlers[o] = Tail(@)], o, Head(s.handlers[o])),
             o)

\* destroy_closure_array: the array is detached, then every closure in it is
\* invalidated
RECURSIVE InvalidateAll(_, _, _)
InvalidateAll(s, o, ks) ==
    IF ks = {} THEN s
    ELSE LET k == CHOOSE x \in ks : \A y \in ks : x <= y
         IN InvalidateAll(
                g_closure_invalidate(DropNotifier(s, k, o, "object_remove_closure"), k),
                o, ks \ {k})

destroy_closure_array(s, o) ==
    InvalidateAll([s EXCEPT !.watched[o] = {}], o, s.watched[o])

\* weak_refs_notify: the list is detached, then every entry of it is notified
RECURSIVE NotifyAll(_, _)
NotifyAll(s, ws) ==
    IF ws = <<>> THEN s
    ELSE LET w == Head(ws)
         IN NotifyAll(IF w.cb = "instance_destroyed_cb"
                      THEN instance_destroyed_cb(s, w.ctx)
                      ELSE observer_destroyed_cb(s, w.ctx),
                      Tail(ws))

weak_refs_notify(s, o) == NotifyAll([s EXCEPT !.weak[o] = <<>>], s.weak[o])

\* The three parts of g_object_real_dispose. GLib releases differ in their
\* order, and a handler that is running keeps its closure past the first
\* part, so every order is an outcome.
DisposeOrders ==
    {<<"H", "C", "W">>, <<"H", "W", "C">>, <<"C", "H", "W">>,
     <<"C", "W", "H">>, <<"W", "H", "C">>, <<"W", "C", "H">>}

DisposePart(s, o, part) ==
    CASE part = "H" -> g_signal_handlers_destroy(s, o)
      [] part = "C" -> destroy_closure_array(s, o)
      [] part = "W" -> weak_refs_notify(s, o)

g_object_dispose(s, o, order) ==
    LET s1 == DisposePart(s, o, order[1])
        s2 == DisposePart(s1, o, order[2])
        s3 == DisposePart(s2, o, order[3])
    IN [s3 EXCEPT !.alive[o] = FALSE]

\* ------------------------------------------------------------- connecting
g_cclosure_new_object(s, k, gobject, swapped) ==
    [s EXCEPT !.closures[k] = [state |-> "live", data |-> gobject,
                               swapped |-> swapped, invalid |-> FALSE, refs |-> 1,
                               inotifiers |-> <<[fn |-> "object_remove_closure",
                                                 data |-> gobject]>>],
              !.watched[gobject] = @ \cup {k}]

\* handler_insert: before the first handler of the signal connected with
\* after = TRUE, unless this one is connected with after = TRUE itself
InsertHandler(q, h) ==
    LET After(x) == x.signal = h.signal /\ x.after
        i == IF h.after THEN 0 ELSE FirstIndex(q, After)
    IN IF i = 0 THEN Append(q, h)
       ELSE SubSeq(q, 1, i - 1) \o <<h>> \o SubSeq(q, i, Len(q))

\* Returns <<state, handler id>>; id 0 (and a warning) for a signal the
\* instance does not have. The handler takes the floating reference.
g_signal_connect_closure(s, o, signal, k, after) ==
    IF signal \notin Signals THEN <<s, 0>>
    ELSE LET id == s.seq + 1
             h == [id |-> id, signal |-> signal, closure |-> k, after |-> after]
             s1 == [s EXCEPT !.seq = id, !.handlers[o] = InsertHandler(@, h)]
         IN <<g_closure_add_invalidate_notifier(s1, k, o, "invalid_closure_notify"), id>>

\* what the caller's contract asks of the arguments
ValidArgs(instance, detailed_signal, c_handler, gobject, connect_flags) ==
    /\ instance \in Obj
    /\ detailed_signal # NullSignal
    /\ c_handler # NULL
    /\ gobject \in Obj
    /\ connect_flags \in {0, G_CONNECT_AFTER, G_CONNECT_SWAPPED,
                          G_CONNECT_AFTER + G_CONNECT_SWAPPED}

\* virt_viewer_signal_connect_object doing what g_signal_connect_data does: a
\* closure that does not watch gobject, and no weak reference on gobject
virt_viewer_signal_connect_object_Unwatched(s, c, instance, detailed_signal, c_handler, gobject, connect_flags) ==
    LET s0 == whc_new(s, c, instance, gobject)
    IN IF ~ValidArgs(instance, detailed_signal, c_handler, gobject, connect_flags)
       THEN <<s0, 0>>
       ELSE
         LET s2 == [s0 EXCEPT !.closures[c] =
                          [NoClosure EXCEPT !.state = "live", !.data = gobject,
                                            !.refs = 1,
                                            !.swapped = HasBit(connect_flags,
                                                               G_CONNECT_SWAPPED)],
                              !.heap[c].closure = c]
             r == g_signal_connect_closure(s2, instance, detailed_signal, c,
                                           HasBit(connect_flags, G_CONNECT_AFTER))
             s3 == [r[1] EXCEPT !.heap[c].handler_id = r[2]]
             s4 == g_object_weak_ref(s3, instance, "instance_destroyed_cb", c)
             s6 == g_closure_add_invalidate_notifier(s4, c, c, "closure_invalidated_cb")
         IN <<s6, s6.heap[c].handler_id>>

\* virt_viewer_signal_connect_object without the invalidate notifier
virt_viewer_signal_connect_object_NoNotifier(s, c, instance, detailed_signal, c_handler, gobject, connect_flags) ==
    LET s0 == whc_new(s, c, instance, gobject)
    IN IF ~ValidArgs(instance, detailed_signal, c_handler, gobject, connect_flags)
       THEN <<s0, 0>>
       ELSE
         LET s1 == g_cclosure_new_object(s0, c, gobject,
                                         HasBit(connect_flags, G_CONNECT_SWAPPED))
             s2 == [s1 EXCEPT !.heap[c].closure = c]
             r == g_signal_connect_closure(s2, instance, detailed_signal, c,
                                           HasBit(connect_flags, G_CONNECT_AFTER))
             s3 == [r[1] EXCEPT !.heap[c].handler_id = r[2]]
             s4 == g_object_weak_ref(s3, instance, "instance_destroyed_cb", c)
             s5 == g_object_weak_ref(s4, gobject, "observer_destroyed_cb", c)
         IN <<s5, s5.heap[c].handler_id>>

\* virt_viewer_signal_connect_object making the closure with the emitter as
\* its data
virt_viewer_signal_connect_object_WrongData(s, c, instance, detailed_signal, c_handler, gobject, connect_flags) ==
    LET s0 == whc_new(s, c, instance, gobject)
    IN IF ~ValidArgs(instance, detailed_signal, c_handler, gobject, connect_flags)
       THEN <<s0, 0>>
       ELSE
         LET s1 == g_cclosure_new_object(s0, c, instance,
                                         HasBit(connect_flags, G_CONNECT_SWAPPED))
             s2 == [s1 EXCEPT !.heap[c].closure = c]
             r == g_signal_connect_closure(s2, instance, detailed_signal, c,
                                           HasBit(connect_flags, G_CONNECT_AFTER))
             s3 == [r[1] EXCEPT !.heap[c].handler_id = r[2]]
             s4 == g_object_weak_ref(s3, instance, "instance_destroyed_cb", c)
             s5 == g_object_weak_ref(s4, gobject, "observer_destroyed_cb", c)
             s6 == g_closure_add_invalidate_notifier(s5, c, c, "closure_invalidated_cb")
         IN <<s6, s6.heap[c].handler_id>>

\* virt_viewer_signal_connect_object reading each option from the other
\* option's bit
virt_viewer_signal_connect_object_FlagsMixed(s, c, instance, detailed_signal, c_handler, gobject, connect_flags) ==
    LET s0 == whc_new(s, c, instance, gobject)
    IN IF ~ValidArgs(instance, detailed_signal, c_handler, gobject, connect_flags)
       THEN <<s0, 0>>
       ELSE
         LET s1 == g_cclosure_new_object(s0, c, gobject,
                                         HasBit(connect_flags, G_CONNECT_AFTER))
             s2 == [s1 EXCEPT !.heap[c].closure = c]
             r == g_signal_connect_closure(s2, instance, detailed_signal, c,
                                           HasBit(connect_flags, G_CONNECT_SWAPPED))
             s3 == [r[1] EXCEPT !.heap[c].handler_id = r[2]]
             s4 == g_object_weak_ref(s3, instance, "instance_destroyed_cb", c)
             s5 == g_object_weak_ref(s4, gobject, "observer_destroyed_cb", c)
             s6 == g_closure_add_invalidate_notifier(s5, c, c, "closure_invalidated_cb")
         IN <<s6, s6.heap[c].handler_id>>

\* Returns <<state, return value>>. c is the address g_slice_new0 returns.
virt_viewer_signal_connect_object(s, c, instance, detailed_signal, c_handler, gobject, connect_flags) ==
    LET s0 == whc_new(s, c, instance, gobject)
    IN IF instance \notin Obj THEN <<s0, 0>>
       ELSE IF detailed_signal = NullSignal THEN <<s0, 0>>
       ELSE IF c_handler = NULL THEN <<s0, 0>>
       ELSE IF gobject \notin Obj THEN <<s0, 0>>
       ELSE IF \E bit \in FlagBits \ {G_CONNECT_AFTER, G_CONNECT_SWAPPED} :
                   HasBit(connect_flags, bit) THEN <<s0, 0>>
       ELSE
         LET s1 == g_cclosure_new_object(s0, c, gobject,
                                         HasBit(connect_flags, G_CONNECT_SWAPPED))
             s2 == [s1 EXCEPT !.heap[c].closure = c]
             r == g_signal_connect_closure(s2, instance, detailed_signal, c,
                                           HasBit(connect_flags, G_CONNECT_AFTER))
             s3 == [r[1] EXCEPT !.heap[c].handler_id = r[2]]
             s4 == g_object_weak_ref(s3, instance, "instance_destroyed_cb", c)
             s5 == g_object_weak_ref(s4, gobject, "observer_destroyed_cb", c)
             s6 == g_closure_add_invalidate_notifier(s5, c, c, "closure_invalidated_cb")
         IN <<s6, s6.heap[c].handler_id>>

\* ---------------------------------------------------------------- emitting
\* g_signal_emit: the closures of the handlers of the signal, in list order,
\* each called with its data (the observer) and its argument order
RECURSIVE Invocations(_, _, _)
Invocations(s, q, signal) ==
    IF q = <<>> THEN <<>>
    ELSE LET h == Head(q)
             k == s.closures[h.closure]
         IN (IF h.signal = signal /\ k.state = "live" /\ ~k.invalid
             THEN <<[ctx |-> h.closure, data |-> k.data, swapped |-> k.swapped,
                     after |-> h.after]>>
             ELSE <<>>) \o Invocations(s, Tail(q), signal)

g_signal_emit(s, o, signal) == Invocations(s, s.handlers[o], signal)

\* ------------------------------------------------------------------ actions
\* no object has a handler or a weak reference, no WeakHandlerCtx exists
InitRegistry ==
    /\ alive = [o \in Obj |-> TRUE]
    /\ weak = [o \in Obj |-> <<>>]
    /\ handlers = [o \in Obj |-> <<>>]
    /\ watched = [o \in Obj |-> {}]
    /\ closures = [k \in Ctx |-> NoClosure]
    /\ heap = [c \in Ctx |-> NoCtx]
    /\ nfree = [c \in Ctx |-> 0]
    /\ ran = [c \in Ctx |-> <<>>]
    /\ steps = [c \in Ctx |-> <<>>]
    /\ faults = {}
    /\ seq = 0
    /\ last = NoLast

\* the utility functions have not been called
NoUriOut == [asked |-> {}, scheme |-> <<>>, host |-> <<>>, transport |-> <<>>,
             user |-> <<>>, port |-> 0]

IdleVersion == v1str = <<>> /\ v2str = <<>> /\ vret = 0 /\ vpc = "start"
IdleMonitors == displays = <<>> /\ displays_in = <<>> /\ mpc = "start"
IdleUri == uristr = <<>> /\ uri_out = NoUriOut /\ uret = 0 /\ upc = "start"

Init == InitRegistry /\ IdleVersion /\ IdleMonitors /\ IdleUri

LiveOrNull == {o \in Obj : alive[o]} \cup {NULL}

Allocated == {c \in Ctx : heap[c].state # "unalloc"}

\* A call of virt_viewer_signal_connect_object. The objects passed are live
\* or NULL, and the emitter is not its own observer (the caller's contract).
Connect(instance, detailed_signal, c_handler, gobject, connect_flags) ==
    /\ \E c \in Ctx : heap[c].state = "unalloc"
    /\ instance \in LiveOrNull
    /\ gobject \in LiveOrNull
    /\ instance = NULL \/ instance # gobject
    /\ LET c == CHOOSE x \in Ctx : /\ heap[x].state = "unalloc"
                                   /\ \A y \in Ctx : heap[y].state = "unalloc" => x <= y
           r == virt_viewer_signal_connect_object(Cur, c, instance, detailed_signal,
                                                  c_handler, gobject, connect_flags)
       IN /\ Commit(r[1])
          /\ last' = [NoLast EXCEPT !.op = "connect", !.ctx = c, !.ret = r[2],
                                    !.valid = ValidArgs(instance, detailed_signal,
                                                        c_handler, gobject,
                                                        connect_flags)]
    /\ UNCHANGED <<vvars, mvars, uvars>>

\* The emitter emits one of its signals.
Emit(o, signal) ==
    /\ alive[o]
    /\ last' = [NoLast EXCEPT !.op = "emit", !.obj = o, !.signal = signal,
                              !.invoked = g_signal_emit(Cur, o, signal)]
    /\ UNCHANGED <<alive, weak, handlers, watched, closures, heap, nfree, ran,
                   steps, faults, seq>>
    /\ UNCHANGED <<vvars, mvars, uvars>>

\* The caller disconnects a handler id that is connected on o.
Disconnect(o, id) ==
    /\ alive[o]
    /\ \E i \in 1..Len(handlers[o]) : handlers[o][i].id = id
    /\ Commit(g_signal_handler_disconnect(Cur, o, id))
    /\ last' = [NoLast EXCEPT !.op = "disconnect", !.obj = o, !.ret = id]
    /\ UNCHANGED <<vvars, mvars, uvars>>

\* The last reference to o is dropped.
Dispose(o, order) ==
    /\ alive[o]
    /\ Commit(g_object_dispose(Cur, o, order))
    /\ last' = [NoLast EXCEPT !.op = "dispose", !.obj = o]
    /\ UNCHANGED <<vvars, mvars, uvars>>

\* The registrations' life: calls with valid arguments, for one of the
\* signals, with neither or both of the two options.
LifecycleSignals == {"sigA"}
LifecycleFlags == {0, G_CONNECT_AFTER + G_CONNECT_SWAPPED}

Next ==
    \/ \E instance \in Obj, gobject \in Obj, detailed_signal \in LifecycleSignals,
          connect_flags \in LifecycleFlags :
          Connect(instance, detailed_signal, Callback, gobject, connect_flags)
    \/ \E o \in Obj, signal \in Signals : Emit(o, signal)
    \/ \E o \in Obj, id \in 1..MaxCtx : Disconnect(o, id)
    \/ \E o \in Obj, order \in DisposeOrders : Dispose(o, order)

Spec == Init /\ [][Next]_vars

\* The arguments: calls with every value of every argument, valid or not.
NextArgs ==
    \/ \E instance \in Obj \cup {NULL}, gobject \in Obj \cup {NULL},
          detailed_signal \in LifecycleSignals \cup {BogusSignal, NullSignal},
          c_handler \in {Callback, NULL}, connect_flags \in Flags :
          /\ Cardinality(Allocated) < MaxArgCalls
          /\ Connect(instance, detailed_signal, c_handler, gobject, connect_flags)
    \/ \E o \in Obj, signal \in Signals : Emit(o, signal)
    \/ \E o \in Obj, id \in 1..MaxCtx : Disconnect(o, id)
    \/ \E o \in Obj, order \in DisposeOrders : Dispose(o, order)

SpecArgs == Init /\ [][NextArgs]_vars

\* The options: calls with valid arguments and each of the four combinations
\* of the two options, the emitter being the object of the lower number.
OptionFlags == {0, G_CONNECT_AFTER, G_CONNECT_SWAPPED,
                G_CONNECT_AFTER + G_CONNECT_SWAPPED}

NextFlags ==
    \/ \E instance \in Obj, gobject \in Obj, detailed_signal \in LifecycleSignals,
          connect_flags \in OptionFlags :
          /\ instance < gobject
          /\ Connect(instance, detailed_signal, Callback, gobject, connect_flags)
    \/ \E o \in Obj, signal \in Signals : Emit(o, signal)
    \/ \E o \in Obj, id \in 1..MaxCtx : Disconnect(o, id)
    \/ \E o \in Obj, order \in DisposeOrders : Dispose(o, order)

SpecFlags == Init /\ [][NextFlags]_vars

\* ===================================================== version comparison
\* A string is a sequence of characters. The strings compared hold digits,
\* dots and letters; neither argument is NULL.
Digits == <<"0", "1", "2", "3", "4", "5", "6", "7", "8", "9">>
IsDigit(ch) == \E i \in 1..Len(Digits) : Digits[i] = ch
DigitValue(ch) == (CHOOSE i \in 1..Len(Digits) : Digits[i] = ch) - 1

\* g_strsplit(s, ".", -1): no token for the empty string, otherwise the text
\* before each dot and the text after the last one
RECURSIVE SplitFrom(_, _, _)
SplitFrom(str, i, token) ==
    IF i > Len(str) THEN <<token>>
    ELSE IF str[i] = "." THEN <<token>> \o SplitFrom(str, i + 1, <<>>)
    ELSE SplitFrom(str, i + 1, Append(token, str[i]))

g_strsplit(str) == IF str = <<>> THEN <<>> ELSE SplitFrom(str, 1, <<>>)

\* A guint64 is four 16-bit limbs, the least significant first.
LimbBits == 16
LimbBase == 2 ^ LimbBits
Zero64 == <<0, 0, 0, 0>>
G_MAXUINT64 == <<LimbBase - 1, LimbBase - 1, LimbBase - 1, LimbBase - 1>>

\* <<v * 10 + d, carry out of 64 bits>>
RECURSIVE MulAddFrom(_, _, _)
MulAddFrom(v, i, carry) ==
    IF i > Len(v) THEN <<<<>>, carry>>
    ELSE LET x == v[i] * 10 + carry
             r == MulAddFrom(v, i + 1, x \div LimbBase)
         IN <<<<x % LimbBase>> \o r[1], r[2]>>

\* g_ascii_strtoull(str, &end, 10): the value of the leading digits, G_MAXUINT64
\* when it does not fit; rest is the text at end
RECURSIVE ParseFrom(_, _, _, _)
ParseFrom(str, i, v, overflow) ==
    IF i > Len(str) \/ ~IsDigit(str[i])
    THEN [value |-> IF overflow THEN G_MAXUINT64 ELSE v,
          rest |-> SubSeq(str, i, Len(str))]
    ELSE LET r == MulAddFrom(v, 1, DigitValue(str[i]))
         IN ParseFrom(str, i + 1, r[1], overflow \/ r[2] # 0)

g_ascii_strtoull(str) == ParseFrom(str, 1, Zero64, FALSE)

\* m1 - m2 in guint64
RECURSIVE SubFrom(_, _, _, _)
SubFrom(a, b, i, borrow) ==
    IF i > Len(a) THEN <<>>
    ELSE LET x == a[i] - b[i] - borrow
         IN <<x % LimbBase>> \o SubFrom(a, b, i + 1, IF x < 0 THEN 1 ELSE 0)

Sub64(a, b) == SubFrom(a, b, 1, 0)

\* the conversion of a guint64 to gint: its low 32 bits, two's complement
ToGint(v) ==
    IF v[2] >= LimbBase \div 2 THEN (v[2] - LimbBase) * LimbBase + v[1]
    ELSE v[2] * LimbBase + v[1]

\* the loop of virt_viewer_compare_version from component i on, and what
\* follows it
RECURSIVE CompareFrom(_, _, _)
CompareFrom(v1, v2, i) ==
    IF i <= Len(v1) /\ i <= Len(v2)
    THEN LET p1 == g_ascii_strtoull(v1[i])
             p2 == g_ascii_strtoull(v2[i])
             retval == ToGint(Sub64(p1.value, p2.value))
         IN IF retval # 0 THEN retval
            ELSE IF p1.rest # <<>> \/ p2.rest # <<>> THEN retval
            ELSE CompareFrom(v1, v2, i + 1)
    ELSE IF i <= Len(v1) THEN 1
    ELSE IF i <= Len(v2) THEN -1
    ELSE 0

virt_viewer_compare_version(str1, str2) ==
    CompareFrom(g_strsplit(str1), g_strsplit(str2), 1)

\* The components the strings compared are made of.
Components ==
    {<<"0">>, <<"1">>, <<"7">>, <<"1", "0">>, <<"0", "r", "c">>,
     <<"2", "1", "4", "7", "4", "8", "3", "6", "4", "8">>,
     <<"4", "2", "9", "4", "9", "6", "7", "2", "9", "6">>}

RECURSIVE Join(_)
Join(cs) ==
    IF Len(cs) = 1 THEN cs[1] ELSE cs[1] \o <<".">> \o Join(Tail(cs))

VersionStrings ==
    {<<>>} \cup {Join(cs) : cs \in UNION {[1..n -> Components] : n \in 1..MaxComponents}}

InitVer ==
    /\ InitRegistry
    /\ IdleMonitors
    /\ IdleUri
    /\ v1str \in VersionStrings
    /\ v2str \in VersionStrings
    /\ vret = 0
    /\ vpc = "start"

CompareVersions ==
    /\ vpc = "start"
    /\ vret' = virt_viewer_compare_version(v1str, v2str)
    /\ vpc' = "done"
    /\ UNCHANGED <<v1str, v2str>>
    /\ UNCHANGED <<rvars, mvars, uvars>>

NextVer == CompareVersions

SpecVer == InitVer /\ [][NextVer]_vars

\* ================================================================ monitors
\* A GdkRectangle is [x, y, width, height], four gints. The array index i of
\* the code is index i + 1 of the sequence.
G_MAXINT == 2147483647

\* the conversion of a difference to guint: two 16-bit limbs, the least
\* significant first
ToGuint(d) == <<d % LimbBase, (d \div LimbBase) % LimbBase>>
Zero32 == <<0, 0>>

\* displays_cmp taking its guint for a number that is never negative
displays_cmp_Unsigned(ds, i, j) ==
    LET m1 == ds[i + 1]
        m2 == ds[j + 1]
        dx == ToGuint(m1.x - m2.x)
        dy == IF dx = Zero32 THEN ToGuint(m1.y - m2.y) ELSE dx
        diff == IF dy = Zero32 THEN ToGuint(i - j) ELSE dy
    IN IF diff = Zero32 THEN 0 ELSE 1

\* displays_cmp(&i, &j, displays): the guint diff is returned as an int
displays_cmp(ds, i, j) ==
    LET m1 == ds[i + 1]
        m2 == ds[j + 1]
        dx == ToGuint(m1.x - m2.x)
        dy == IF dx = Zero32 THEN ToGuint(m1.y - m2.y) ELSE dx
        diff == IF dy = Zero32 THEN ToGuint(i - j) ELSE dy
    IN ToGint(diff)

\* g_qsort_with_data(sorted_displays, ndisplays, ..., displays_cmp, displays):
\* a stable sort, here by insertion of each element after the elements that
\* do not compare greater
RECURSIVE InsertSorted(_, _, _)
InsertSorted(ds, sorted, e) ==
    IF sorted = <<>> THEN <<e>>
    ELSE IF displays_cmp(ds, e, Head(sorted)) < 0 THEN <<e>> \o sorted
    ELSE <<Head(sorted)>> \o InsertSorted(ds, Tail(sorted), e)

RECURSIVE SortFrom(_, _, _)
SortFrom(ds, q, i) ==
    IF i > Len(q) THEN <<>>
    ELSE InsertSorted(ds, SortFrom(ds, q, i + 1), q[i])

g_qsort_with_data(ds, q) == SortFrom(ds, q, 1)

\* the second loop of virt_viewer_align_monitors_linear from position i on
RECURSIVE PlaceFrom(_, _, _, _)
PlaceFrom(ds, sorted_displays, i, x) ==
    IF i > Len(sorted_displays) THEN ds
    ELSE LET nth == sorted_displays[i]
         IN PlaceFrom([ds EXCEPT ![nth + 1].x = x, ![nth + 1].y = 0],
                      sorted_displays, i + 1, x + ds[nth + 1].width)

virt_viewer_align_monitors_linear(ds) ==
    IF Len(ds) = 0 THEN ds
    ELSE LET sorted_displays == [i \in 1..Len(ds) |-> i - 1]
         IN PlaceFrom(ds, g_qsort_with_data(ds, sorted_displays), 1, 0)

MIN(a, b) == IF a < b THEN a ELSE b

\* the first loop of virt_viewer_shift_monitors_to_origin from index i on:
\* <<xmin, ymin>>
RECURSIVE MinFrom(_, _, _, _)
MinFrom(ds, i, xmin, ymin) ==
    IF i > Len(ds) THEN <<xmin, ymin>>
    ELSE IF ds[i].width > 0 /\ ds[i].height > 0
         THEN MinFrom(ds, i + 1, MIN(xmin, ds[i].x), MIN(ymin, ds[i].y))
         ELSE MinFrom(ds, i + 1, xmin, ymin)

\* virt_viewer_shift_monitors_to_origin moving every rectangle, the
\* degenerate ones as well
virt_viewer_shift_monitors_to_origin_All(ds) ==
    IF ~(Len(ds) > 0) THEN ds
    ELSE LET m == MinFrom(ds, 1, G_MAXINT, G_MAXINT)
             xmin == m[1]
             ymin == m[2]
         IN IF ~(xmin < G_MAXINT /\ ymin < G_MAXINT) THEN ds
            ELSE IF xmin > 0 \/ ymin > 0
            THEN [i \in 1..Len(ds) |->
                     [ds[i] EXCEPT !.x = @ - xmin, !.y = @ - ymin]]
            ELSE ds

virt_viewer_shift_monitors_to_origin(ds) ==
    IF ~(Len(ds) > 0) THEN ds
    ELSE LET m == MinFrom(ds, 1, G_MAXINT, G_MAXINT)
             xmin == m[1]
             ymin == m[2]
         IN IF ~(xmin < G_MAXINT /\ ymin < G_MAXINT) THEN ds
            ELSE IF xmin > 0 \/ ymin > 0
            THEN [i \in 1..Len(ds) |->
                     IF ds[i].width > 0 /\ ds[i].height > 0
                     THEN [ds[i] EXCEPT !.x = @ - xmin, !.y = @ - ymin]
                     ELSE ds[i]]
            ELSE ds

\* The rectangles tried: positions left of, at and right of the origin,
\* above, at and below it; sizes that are degenerate or not.
XCoords == {-1, 0, 100}
YCoords == {-1, 0, 50}
Widths == {-1, 50, 80}
Heights == {0, 50}
Rectangles == [x : XCoords, y : YCoords, width : Widths, height : Heights]
DisplayArrays == UNION {[1..n -> Rectangles] : n \in 0..MaxDisplays}

InitMon ==
    /\ InitRegistry
    /\ IdleVersion
    /\ IdleUri
    /\ displays \in DisplayArrays
    /\ displays_in = displays
    /\ mpc = "start"

AlignMonitors ==
    /\ mpc = "start"
    /\ displays' = virt_viewer_align_monitors_linear(displays)
    /\ mpc' = "aligned"
    /\ UNCHANGED displays_in
    /\ UNCHANGED <<rvars, vvars, uvars>>

ShiftMonitors ==
    /\ mpc = "start"
    /\ displays' = virt_viewer_shift_monitors_to_origin(displays)
    /\ mpc' = "shifted"
    /\ UNCHANGED displays_in
    /\ UNCHANGED <<rvars, vvars, uvars>>

NextMon == AlignMonitors \/ ShiftMonitors

SpecMon == InitMon /\ [][NextMon]_vars

\* ==================================================== connection URIs
\* A string is a sequence of characters; a NULL char pointer and storage the
\* function never wrote are two values that are no strings.
NullStr == <<"(null)">>
Unset == <<"(unset)">>
XEN == <<"x", "e", "n">>
XEN_URI == <<"x", "e", "n", ":", "/", "/", "/">>
LOCALHOST == <<"l", "o", "c", "a", "l", "h", "o", "s", "t">>

LowerCase == <<"a", "b", "c", "d", "e", "f", "g", "h", "i", "j", "k", "l", "m", "n", "o", "p", "q", "r", "s", "t", "u", "v", "w", "x", "y", "z">>
UpperCase == <<"A", "B", "C", "D", "E", "F", "G", "H", "I", "J", "K", "L", "M", "N", "O", "P", "Q", "R", "S", "T", "U", "V", "W", "X", "Y", "Z">>
Alpha == {LowerCase[i] : i \in 1..Len(LowerCase)} \cup {UpperCase[i] : i \in 1..Len(UpperCase)}
DigitChars == {Digits[i] : i \in 1..Len(Digits)}

g_ascii_tolower(ch) ==
    IF \E i \in 1..Len(UpperCase) : UpperCase[i] = ch
    THEN LowerCase[CHOOSE i \in 1..Len(UpperCase) : UpperCase[i] = ch]
    ELSE ch

\* 0 when the strings are equal but for the case of their letters
g_ascii_strcasecmp(a, b) ==
    IF [i \in 1..Len(a) |-> g_ascii_tolower(a[i])] =
       [i \in 1..Len(b) |-> g_ascii_tolower(b[i])]
    THEN 0 ELSE 1

\* the index of the first ch in str from index i on, 0 when there is none
RECURSIVE strchr(_, _, _)
strchr(str, i, ch) ==
    IF i > Len(str) THEN 0
    ELSE IF str[i] = ch THEN i
    ELSE strchr(str, i + 1, ch)

\* the index after the characters of the set that start at index i
RECURSIVE ScanWhile(_, _, _)
ScanWhile(str, i, chars) ==
    IF i <= Len(str) /\ str[i] \in chars THEN ScanWhile(str, i + 1, chars) ELSE i

At(str, i, ch) == i <= Len(str) /\ str[i] = ch

\* the character classes of RFC 3986 (without percent-encoding)
Unreserved == Alpha \cup DigitChars \cup {"-", ".", "_", "~"}
SubDelims == {"!", "$", "&", "'", "(", ")", "*", "+", ",", ";", "="}
SchemeChars == Alpha \cup DigitChars \cup {"+", "-", "."}
UserinfoChars == Unreserved \cup SubDelims \cup {":"}
RegNameChars == Unreserved \cup SubDelims
PChars == Unreserved \cup SubDelims \cup {":", "@"}

RECURSIVE DecimalFrom(_, _, _)
DecimalFrom(str, i, v) ==
    IF i > Len(str) THEN v ELSE DecimalFrom(str, i + 1, v * 10 + DigitValue(str[i]))

NoUri == [ok |-> FALSE, scheme |-> NullStr, user |-> NullStr, server |-> NullStr,
          port |-> 0, next |-> 0]

\* the one element of a set of one element: Only({F(v) : v \in {e}}) is F(e)
\* with e computed once
Only(S) == CHOOSE x \in S : TRUE

\* the end of xmlParse3986Authority: [ ":" port ] at index e, after the
\* userinfo that ends at u (when str[u] is "@") and the host from h to e
AuthorityPort(str, i, u, h, e) ==
    Only({IF At(str, e, ":") /\ pe = e + 1 THEN NoUri
          ELSE [ok |-> TRUE, scheme |-> NullStr,
                user |-> IF At(str, u, "@") THEN SubSeq(str, i, u - 1) ELSE NullStr,
                server |-> IF e > h THEN SubSeq(str, h, e - 1) ELSE NullStr,
                port |-> IF At(str, e, ":")
                         THEN DecimalFrom(SubSeq(str, e + 1, pe - 1), 1, 0) ELSE 0,
                next |-> pe]
          : pe \in {IF At(str, e, ":") THEN ScanWhile(str, e + 1, DigitChars)
                    ELSE e}})

\* the host at index h: an IP literal to its "]", or a reg-name
AuthorityHost(str, i, u, h) ==
    IF At(str, h, "[")
    THEN Only({IF close = 0 THEN NoUri ELSE AuthorityPort(str, i, u, h, close + 1)
               : close \in {strchr(str, h + 1, "]")}})
    ELSE Only({AuthorityPort(str, i, u, h, e)
               : e \in {ScanWhile(str, h, RegNameChars)}})

\* xmlParse3986Authority at index i: [ userinfo "@" ] host [ ":" port ]. The
\* server keeps the brackets of an IP literal; an empty host is no server;
\* a ":" without digits is an error.
xmlParse3986Authority(str, i) ==
    Only({AuthorityHost(str, i, u, IF At(str, u, "@") THEN u + 1 ELSE i)
          : u \in {ScanWhile(str, i, UserinfoChars)}})

\* the path from index i on, then [ "?" query ] [ "#" fragment ], which must
\* end the string
EndsAsUri(str, i) ==
    \E p \in {ScanWhile(str, i, PChars \cup {"/"})} :
    \E q \in {IF At(str, p, "?") THEN ScanWhile(str, p + 1, PChars \cup {"/", "?"})
               ELSE p} :
    \E f \in {IF At(str, q, "#") THEN ScanWhile(str, q + 1, PChars \cup {"/", "?"})
               ELSE q} :
        f > Len(str)

\* "//" authority path at index i, or a path alone, to the end of the string
AuthorityAndPath(str, i) ==
    IF At(str, i, "/") /\ At(str, i + 1, "/")
    THEN Only({IF a.ok /\ (a.next > Len(str) \/ str[a.next] \in {"/", "?", "#"})
                       /\ EndsAsUri(str, a.next)
               THEN a ELSE NoUri
               : a \in {xmlParse3986Authority(str, i + 2)}})
    ELSE IF EndsAsUri(str, i) THEN [NoUri EXCEPT !.ok = TRUE] ELSE NoUri

\* xmlParse3986HierPart at index i: an authority without a server has the
\* port -1
xmlParse3986HierPart(str, i) ==
    Only({IF r.ok /\ At(str, i, "/") /\ At(str, i + 1, "/") /\ r.server = NullStr
          THEN [r EXCEPT !.port = -1] ELSE r
          : r \in {AuthorityAndPath(str, i)}})

\* xmlParse3986RelativeRef: a path that does not start with "/" has no ":"
\* in its first segment
xmlParse3986RelativeRef(str) ==
    IF At(str, 1, "/") THEN AuthorityAndPath(str, 1)
    ELSE IF At(str, ScanWhile(str, 1, PChars \ {":"}), ":") THEN NoUri
    ELSE AuthorityAndPath(str, 1)

\* xmlParse3986URI: scheme ":" hier-part, the scheme ending before index s
xmlParse3986URI(str, s) ==
    IF Len(str) >= 1 /\ str[1] \in Alpha /\ At(str, s, ":")
    THEN Only({IF r.ok THEN [r EXCEPT !.scheme = SubSeq(str, 1, s - 1)] ELSE NoUri
               : r \in {xmlParse3986HierPart(str, s + 1)}})
    ELSE NoUri

\* xmlParseURI: a URI, and when the string is not one, a relative reference;
\* ok = FALSE stands for the NULL it returns on failure
xmlParseURI(str) ==
    Only({IF r.ok THEN r ELSE xmlParse3986RelativeRef(str)
          : r \in {xmlParse3986URI(str, ScanWhile(str, 1, SchemeChars))}})

\* The out parameters: asked holds the names of those that are not NULL.
OutNames == {"scheme", "host", "transport", "user", "port"}

\* virt_viewer_util_extract_host from line 119 on, uri being what xmlParseURI
\* returned: [ret, out]
ExtractFromUri(uri, out) ==
    LET offset == IF uri.scheme # NullStr THEN strchr(uri.scheme, 1, "+") ELSE 0
        tmp == SubSeq(uri.server, 2, Len(uri.server))
        host == IF uri.server = NullStr THEN LOCALHOST
                ELSE IF uri.server[1] = "["
                THEN (IF strchr(tmp, 1, "]") # 0
                      THEN SubSeq(tmp, 1, strchr(tmp, 1, "]") - 1) ELSE tmp)
                ELSE uri.server
        transport == IF offset # 0
                     THEN SubSeq(uri.scheme, offset + 1, Len(uri.scheme))
                     ELSE NullStr
        scheme == IF uri.scheme = NullStr THEN out.scheme
                  ELSE IF offset # 0 THEN SubSeq(uri.scheme, 1, offset - 1)
                  ELSE uri.scheme
    IN IF ~uri.ok THEN [ret |-> 1, out |-> out]
       ELSE [ret |-> 0,
             out |-> [asked |-> out.asked,
                      host |-> IF "host" \in out.asked THEN host ELSE out.host,
                      user |-> IF "user" \in out.asked THEN uri.user ELSE out.user,
                      port |-> IF "port" \in out.asked THEN uri.port ELSE out.port,
                      transport |-> IF "transport" \in out.asked THEN transport
                                    ELSE out.transport,
                      scheme |-> IF "scheme" \in out.asked THEN scheme
                                 ELSE out.scheme]]

\* Returns [ret, out]: the return value and what the out parameters point to
\* afterwards.
virt_viewer_util_extract_host(str, out) ==
    Only({ExtractFromUri(uri, out)
          : uri \in {xmlParseURI(given)
                     : given \in {IF str = NullStr \/ g_ascii_strcasecmp(str, XEN) = 0
                                  THEN XEN_URI ELSE str}}})

\* The strings tried: every URI put together from the parts below, and a few
\* that are not of that form.
SchemeParts == {[scheme |-> <<>>, transport |-> <<>>],
                [scheme |-> XEN, transport |-> <<>>],
                [scheme |-> <<"q", "e", "m", "u">>, transport |-> <<>>],
                [scheme |-> <<"q", "e", "m", "u">>, transport |-> <<"s", "s", "h">>],
                [scheme |-> <<"a">>, transport |-> <<"b", "+", "c">>]}
UserParts == {<<>>, <<"u", "s", "e", "r">>}
ServerParts == {[server |-> <<>>, bracketed |-> FALSE],
                [server |-> <<"h", "o", "s", "t">>, bracketed |-> FALSE],
                [server |-> <<":", ":", "1">>, bracketed |-> TRUE]}
PortParts == {<<>>, <<"2", "2">>}
PathParts == {<<"/">>, <<"/", "s", "y", "s", "t", "e", "m">>}
UriParts == [name : SchemeParts, user : UserParts, host : ServerParts,
             port : PortParts, path : PathParts]

BuildUri(p) ==
    (IF p.name.scheme = <<>> THEN <<>>
     ELSE p.name.scheme
          \o (IF p.name.transport = <<>> THEN <<>> ELSE <<"+">> \o p.name.transport)
          \o <<":">>)
    \o <<"/", "/">>
    \o (IF p.user = <<>> THEN <<>> ELSE p.user \o <<"@">>)
    \o (IF p.host.bracketed THEN <<"[">> \o p.host.server \o <<"]">>
        ELSE p.host.server)
    \o (IF p.port = <<>> THEN <<>> ELSE <<":">> \o p.port)
    \o p.path

OtherUriStrings == {NullStr, <<>>, XEN, <<"X", "E", "N">>, <<"X", "e", "n">>,
                    <<"x", " ", "y">>, <<"q", "e", "m", "u", ":", "/", "/", "[", ":", ":", "1">>}

UriStrings == {BuildUri(p) : p \in UriParts} \cup OtherUriStrings

InitUri ==
    /\ InitRegistry
    /\ IdleVersion
    /\ IdleMonitors
    /\ uristr \in UriStrings
    /\ \E asked \in {OutNames, {}} :
          uri_out = [asked |-> asked, scheme |-> Unset, host |-> Unset,
                     transport |-> Unset, user |-> Unset, port |-> 0]
    /\ uret = 0
    /\ upc = "start"

ExtractHost ==
    /\ upc = "start"
    /\ LET r == virt_viewer_util_extract_host(uristr, uri_out)
       IN uret' = r.ret /\ uri_out' = r.out
    /\ upc' = "done"
    /\ UNCHANGED uristr
    /\ UNCHANGED <<rvars, vvars, mvars>>

NextUri == ExtractHost

SpecUri == InitUri /\ [][NextUri]_vars

\* ================================================================ claims
\* ---- what the claims speak of
Created(c) == heap[c].state # "unalloc"
Released(c) == heap[c].state = "freed"

HandlerConnected(o, id) == \E i \in 1..Len(handlers[o]) : handlers[o][i].id = id

HasWeak(o, cb, c) ==
    \E i \in 1..Len(weak[o]) : weak[o][i] = [cb |-> cb, ctx |-> c]

HasInvalidateWatch(k, c) ==
    \E i \in 1..Len(closures[k].inotifiers) :
        closures[k].inotifiers[i] = [fn |-> "closure_invalidated_cb", data |-> c]

\* ARMED: the binding and the three watches of an allocated ctx are in place
Armed(c) ==
    LET ctx == heap[c]
    IN /\ ctx.state = "alloc"
       /\ ctx.instance \in Obj /\ ctx.observer \in Obj /\ ctx.closure \in Ctx
       /\ ctx.handler_id # 0
       /\ HandlerConnected(ctx.instance, ctx.handler_id)
       /\ HasWeak(ctx.instance, "instance_destroyed_cb", c)
       /\ HasWeak(ctx.observer, "observer_destroyed_cb", c)
       /\ HasInvalidateWatch(ctx.closure, c)

\* none of the three teardown conditions of an allocated ctx has occurred
Untriggered(c) ==
    LET ctx == heap[c]
    IN /\ ctx.instance \in Obj /\ alive[ctx.instance]
       /\ ctx.observer \in Obj /\ alive[ctx.observer]
       /\ ctx.closure \in Ctx
       /\ closures[ctx.closure].state = "live" /\ ~closures[ctx.closure].invalid
       /\ HandlerConnected(ctx.instance, ctx.handler_id)

WatchedAnywhere(c) ==
    \/ \E o \in Obj : \E i \in 1..Len(weak[o]) : weak[o][i].ctx = c
    \/ \E k \in Ctx : HasInvalidateWatch(k, c)

Position(q, x) == LET Is(y) == y = x IN FirstIndex(q, Is)
Before(q, x, y) == Position(q, x) # 0 /\ Position(q, y) # 0 /\ Position(q, x) < Position(q, y)

\* C1: a Registration made by a successful call is deallocated exactly once,
\* by exactly one of the three callbacks, whatever the order of the teardown
\* events: no callback runs twice or after another, nothing is freed twice or
\* used after it was freed, and a registration that is not released has seen
\* no teardown event.
C1_ExactlyOneRelease ==
    /\ faults = {}
    /\ \A c \in Ctx :
        /\ nfree[c] <= 1
        /\ Len(ran[c]) = nfree[c]
        /\ Created(c) =>
              \/ Released(c) /\ nfree[c] = 1
              \/ heap[c].state = "alloc" /\ nfree[c] = 0 /\ Untriggered(c)

\* the emitter was disposed of first and notified its weak references, the
\* observer after it: one release
C1_Witness ==
    /\ \A o \in Obj : ~alive[o]
    /\ \E c \in Ctx : ran[c] = <<"instance_destroyed_cb">> /\ nfree[c] = 1

\* C2: a Registration that is still allocated has seen none of the three
\* teardown events (its emitter and its observer are alive, its binding is
\* connected and valid), and a released Registration stays released.
C2_ReleasedAtFirstTrigger ==
    /\ [](\A c \in Ctx : heap[c].state = "alloc" => Untriggered(c))
    /\ [][\A c \in Ctx : Released(c) => Released(c)']_vars

\* an explicit disconnect released the registration in the same step
C2_Witness ==
    /\ last.op = "disconnect"
    /\ \E c \in Ctx : Released(c) /\ ran[c] = <<"closure_invalidated_cb">>
    /\ \A o \in Obj : alive[o]

\* C3: no weak reference and no invalidate notifier carries a released
\* Registration.
C3_NoWatchOfReleased ==
    \A c \in Ctx : Released(c) => ~WatchedAnywhere(c)

\* the emitter went first and the observer lives on
C3_Witness ==
    /\ \E c \in Ctx : ran[c] = <<"instance_destroyed_cb">>
    /\ \E o \in Obj : alive[o]

\* C4: every handler an emitter holds, and every callback an emission runs,
\* belongs to a Registration that is still allocated and has a live observer.
C4_NoCallAfterRelease ==
    /\ \A o \in Obj : \A i \in 1..Len(handlers[o]) :
          LET k == handlers[o][i].closure
          IN /\ heap[k].state = "alloc"
             /\ closures[k].state = "live"
             /\ closures[k].data \in Obj /\ alive[closures[k].data]
    /\ \A i \in 1..Len(last.invoked) :
          /\ heap[last.invoked[i].ctx].state = "alloc"
          /\ last.invoked[i].data \in Obj /\ alive[last.invoked[i].data]

\* the observer was destroyed, then the surviving emitter emitted: no call
C4_Witness ==
    /\ last.op = "emit"
    /\ last.invoked = <<>>
    /\ \E c \in Ctx : ran[c] = <<"observer_destroyed_cb">>
    /\ \A c \in Ctx : Created(c) => Released(c)
    /\ Cardinality({o \in Obj : alive[o]}) = NObj - 1

\* C5: a call whose arguments fail validation returns 0 and leaves nothing
\* behind: no handler, no watch, no allocated WeakHandlerCtx.
C5_NothingLeftOnInvalidInput ==
    (last.op = "connect" /\ ~last.valid) =>
        /\ last.ret = 0
        /\ ~WatchedAnywhere(last.ctx)
        /\ \A o \in Obj : \A i \in 1..Len(handlers[o]) :
              handlers[o][i].closure # last.ctx
        /\ heap[last.ctx].state # "alloc"

\* C6: when the call returns a handler id, the binding is connected under
\* that id, which is the id the ctx stores, and the three watches are in
\* place; and no ctx that stores a handler id is ever partly installed.
C6_ArmedOnReturn ==
    /\ (last.op = "connect" /\ last.ret # 0) =>
          Armed(last.ctx) /\ heap[last.ctx].handler_id = last.ret
    /\ \A c \in Ctx : (heap[c].state = "alloc" /\ heap[c].handler_id # 0) => Armed(c)

C6_Witness ==
    /\ last.op = "connect"
    /\ last.ret # 0
    /\ Armed(last.ctx)

\* the signal a ctx with a connected handler subscribes to
SignalOf(c) ==
    LET q == handlers[heap[c].instance]
    IN q[CHOOSE i \in 1..Len(q) : q[i].id = heap[c].handler_id].signal

\* C7: an emission of a signal on an emitter runs the callback of every
\* Registration of that emitter and signal that is still allocated, once,
\* with the observer as data.
C7_EmissionInvokes ==
    last.op = "emit" =>
        \A c \in Ctx :
            (/\ heap[c].state = "alloc"
             /\ heap[c].instance = last.obj
             /\ HandlerConnected(heap[c].instance, heap[c].handler_id)
             /\ SignalOf(c) = last.signal) =>
                Cardinality({i \in 1..Len(last.invoked) :
                                /\ last.invoked[i].ctx = c
                                /\ last.invoked[i].data = heap[c].observer}) = 1

\* two registrations of one emitter, both called by one emission
C7_Witness ==
    /\ last.op = "emit"
    /\ Len(last.invoked) = MaxCtx
    /\ \A c \in Ctx : heap[c].state = "alloc" /\ heap[c].instance = last.obj

\* C8 as claimed: the first two things every teardown callback does are the
\* removals of the two other watches.
Unwatches == {"unwatch instance", "unwatch observer", "unwatch closure"}

C8_WatchesRemovedFirst ==
    \A c \in Ctx :
        ran[c] # <<>> =>
            /\ Len(steps[c]) >= 2
            /\ steps[c][1] \in Unwatches
            /\ steps[c][2] \in Unwatches

\* C8 as amended: the two other watches are removed before the ctx is freed,
\* which is the last step; instance_destroyed_cb and closure_invalidated_cb
\* remove them first of all; observer_destroyed_cb removes the invalidate
\* watch first, disconnects the handler, and only then removes the emitter's
\* watch.
C8_WatchesRemovedBeforeFree ==
    \A c \in Ctx :
        ran[c] # <<>> =>
            /\ Len(ran[c]) = 1
            /\ steps[c][Len(steps[c])] = "free"
            /\ Cardinality({i \in 1..Len(steps[c]) : steps[c][i] \in Unwatches}) = 2
            /\ \A i \in 1..Len(steps[c]) :
                  steps[c][i] = "disconnect" =>
                      /\ ran[c] = <<"observer_destroyed_cb">>
                      /\ Before(steps[c], "unwatch closure", "disconnect")
                      /\ Before(steps[c], "disconnect", "unwatch instance")
            /\ ran[c] # <<"observer_destroyed_cb">> =>
                  steps[c][1] \in Unwatches /\ steps[c][2] \in Unwatches
            /\ ran[c] = <<"observer_destroyed_cb">> =>
                  steps[c] = <<"unwatch closure", "disconnect",
                               "unwatch instance", "free">>

C8_Witness ==
    \E c \in Ctx : ran[c] = <<"observer_destroyed_cb">> /\ Released(c)

\* C15: when observer_destroyed_cb runs for a Registration it removes the
\* invalidate watch, disconnects the handler from the emitter, removes the
\* emitter's watch and frees the Registration, in this order; the disconnect
\* invalidates and finalizes the binding, and closure_invalidated_cb does not
\* run for that Registration: it is freed once.
C15_ObserverTeardownOrder ==
    \A c \in Ctx :
        (ran[c] # <<>> /\ ran[c][1] = "observer_destroyed_cb") =>
            /\ steps[c] = <<"unwatch closure", "disconnect", "unwatch instance",
                            "free">>
            /\ ran[c] = <<"observer_destroyed_cb">>
            /\ nfree[c] = 1
            /\ closures[c].state = "finalized"
            /\ "double free" \notin faults /\ "use after free" \notin faults

\* the observer was destroyed, its weak references notified first; the
\* emitter lives on without the handler
C15_Witness ==
    /\ last.op = "dispose"
    /\ \E c \in Ctx : /\ ran[c] = <<"observer_destroyed_cb">>
                       /\ closures[c].state = "finalized"
                       /\ Len(steps[c]) = 4
    /\ \E o \in Obj : alive[o] /\ handlers[o] = <<>> /\ weak[o] = <<>>

\* the faults of an operation on something that is gone
GoneFaults ==
    {"weak_unref on an invalid object", "weak_unref: weak ref not found",
     "remove_invalidate_notifier on an invalid closure",
     "remove_invalidate_notifier: notifier not found",
     "handler_disconnect on an invalid instance",
     "handler_disconnect: no handler with this id",
     "invalid_closure_notify: no handler"}

\* C16: no teardown callback works on something that is gone: no removal of
\* a weak reference from an object that is finalized or has given up its
\* list, no disconnect from a dead instance or of an id that is not
\* connected, no removal of a notifier that is not there; instance_destroyed_cb
\* neither disconnects nor removes the instance's weak reference, and
\* closure_invalidated_cb does not disconnect.
C16_NothingGoneIsTouched ==
    /\ faults \cap GoneFaults = {}
    /\ \A c \in Ctx : \A i \in 1..Len(steps[c]) :
          /\ ran[c][1] = "instance_destroyed_cb" =>
                steps[c][i] \notin {"disconnect", "unwatch instance"}
          /\ ran[c][1] = "closure_invalidated_cb" => steps[c][i] # "disconnect"
          /\ steps[c][i] = "disconnect" => ran[c][1] = "observer_destroyed_cb"

\* one Registration was released by instance_destroyed_cb and another by
\* closure_invalidated_cb
C16_Witness ==
    /\ \E c \in Ctx : ran[c] = <<"instance_destroyed_cb">>
    /\ \E c \in Ctx : ran[c] = <<"closure_invalidated_cb">>
    /\ faults = {}

\* the operation just done hit the Registration c (as it was before it): one
\* of its two objects was disposed of, or its handler id was disconnected
Hits(c) ==
    \/ last'.op = "dispose" /\ last'.obj \in {heap[c].instance, heap[c].observer}
    \/ /\ last'.op = "disconnect"
       /\ last'.obj = heap[c].instance
       /\ last'.ret = heap[c].handler_id

TeardownSteps(cb) ==
    CASE cb = "instance_destroyed_cb" -> <<"unwatch observer", "unwatch closure", "free">>
      [] cb = "observer_destroyed_cb" ->
             <<"unwatch closure", "disconnect", "unwatch instance", "free">>
      [] cb = "closure_invalidated_cb" -> <<"unwatch instance", "unwatch observer", "free">>

\* the handlers of a signal connected with after = TRUE come after the others
AfterHandlersLast(q) ==
    \A i \in 1..Len(q) : \A j \in 1..Len(q) :
        (i < j /\ q[i].signal = q[j].signal) => ~(q[i].after /\ ~q[j].after)

\* the WeakHandlerCtx the next call allocates
FirstUnallocated(c) ==
    /\ heap[c].state = "unalloc"
    /\ \A y \in Ctx : heap[y].state = "unalloc" => c <= y

\* C18: a valid call with any of the four combinations of the two options
\* is accepted and leaves the Registration armed; the closure is swapped
\* exactly when G_CONNECT_SWAPPED is set and the handler is connected with
\* after = TRUE exactly when G_CONNECT_AFTER is set, so that it runs after
\* the handlers connected without it; and the teardown callbacks do the same
\* steps, once, whatever the options.
C18_OptionsIndependent ==
    /\ [](/\ faults = {}
          /\ \A o \in Obj : AfterHandlersLast(handlers[o])
          /\ \A c \in Ctx : ran[c] # <<>> =>
                /\ Len(ran[c]) = 1 /\ nfree[c] = 1
                /\ steps[c] = TeardownSteps(ran[c][1]))
    /\ [][\A instance \in Obj, gobject \in Obj, connect_flags \in OptionFlags :
          \A c \in Ctx :
              (/\ FirstUnallocated(c)
               /\ Connect(instance, "sigA", Callback, gobject, connect_flags)) =>
                  LET q == handlers'[instance]
                      Mine(h) == h.closure = c
                      i == FirstIndex(q, Mine)
                  IN /\ last'.ctx = c
                     /\ last'.ret # 0
                     /\ Armed(c)'
                     /\ closures'[c].swapped = HasBit(connect_flags, G_CONNECT_SWAPPED)
                     /\ i # 0
                     /\ q[i].id = last'.ret
                     /\ q[i].after = HasBit(connect_flags, G_CONNECT_AFTER)
                     /\ \A j \in 1..Len(q) :
                           (j # i /\ ~q[i].after /\ ~q[j].after) => j < i]_vars

\* one emitter has a handler connected with G_CONNECT_SWAPPED alone, and
\* behind it, though connected before it, one with G_CONNECT_AFTER alone
C18_Witness ==
    \E o \in Obj :
        /\ Len(handlers[o]) = 2
        /\ handlers[o][1].id > handlers[o][2].id
        /\ ~handlers[o][1].after /\ closures[handlers[o][1].closure].swapped
        /\ handlers[o][2].after /\ ~closures[handlers[o][2].closure].swapped

\* ---- version comparison
\* the components of a dotted string as text
TextComponents(str) == SplitFrom(str, 1, <<>>)

IsNumeric(comp) == comp # <<>> /\ \A i \in 1..Len(comp) : IsDigit(comp[i])
AllNumeric(str) == \A i \in 1..Len(TextComponents(str)) : IsNumeric(TextComponents(str)[i])
HasSuffix(str) ==
    \E i \in 1..Len(TextComponents(str)) :
        LET comp == TextComponents(str)[i]
        IN comp # <<>> /\ IsDigit(comp[1]) /\ ~IsNumeric(comp)

RECURSIVE StripZeros(_)
StripZeros(comp) ==
    IF Len(comp) > 1 /\ comp[1] = "0" THEN StripZeros(Tail(comp)) ELSE comp

\* the order of two decimal numerals as numbers: -1, 0 or 1
NumeralOrder(a, b) ==
    LET x == StripZeros(a)
        y == StripZeros(b)
        Differ(i) == x[i] # y[i]
    IN IF Len(x) # Len(y) THEN (IF Len(x) < Len(y) THEN -1 ELSE 1)
       ELSE IF x = y THEN 0
       ELSE LET i == CHOOSE j \in 1..Len(x) :
                        Differ(j) /\ \A m \in 1..(j - 1) : ~Differ(m)
            IN IF DigitValue(x[i]) < DigitValue(y[i]) THEN -1 ELSE 1

\* the order of two sequences of numerals: the first pair that differs
\* decides, then the longer sequence is the greater
RECURSIVE SequenceOrder(_, _, _)
SequenceOrder(cs1, cs2, i) ==
    IF i <= Len(cs1) /\ i <= Len(cs2)
    THEN IF NumeralOrder(cs1[i], cs2[i]) # 0 THEN NumeralOrder(cs1[i], cs2[i])
         ELSE SequenceOrder(cs1, cs2, i + 1)
    ELSE IF i <= Len(cs1) THEN 1
    ELSE IF i <= Len(cs2) THEN -1
    ELSE 0

Sign(x) == IF x < 0 THEN -1 ELSE IF x > 0 THEN 1 ELSE 0

\* C9: on strings of numeric components the sign of the result is the order
\* of the component sequences as numbers (so 0 exactly when they are the
\* same), and the results for (a, b) and (b, a) have opposite signs for
\* every pair of strings.
C9_NumericOrder ==
    vpc = "done" =>
        /\ (AllNumeric(v1str) /\ AllNumeric(v2str)) =>
              Sign(vret) = SequenceOrder(TextComponents(v1str),
                                         TextComponents(v2str), 1)
        /\ Sign(virt_viewer_compare_version(v2str, v1str)) = -Sign(vret)

\* the same for components below 2^31, the values a gint difference can hold
FitsGint(str) ==
    \A i \in 1..Len(TextComponents(str)) : Len(StripZeros(TextComponents(str)[i])) <= 9

C9_NumericOrderOfSmallComponents ==
    (vpc = "done" /\ FitsGint(v1str) /\ FitsGint(v2str)) =>
        /\ (AllNumeric(v1str) /\ AllNumeric(v2str)) =>
              Sign(vret) = SequenceOrder(TextComponents(v1str),
                                         TextComponents(v2str), 1)
        /\ Sign(virt_viewer_compare_version(v2str, v1str)) = -Sign(vret)

\* C10: the result is 0 whenever a component of either string has a
\* non-numeric suffix.
C10_SuffixGivesZero ==
    (vpc = "done" /\ (HasSuffix(v1str) \/ HasSuffix(v2str))) => vret = 0

\* the order of two guint64 values: -1, 0 or 1
RECURSIVE Order64From(_, _, _)
Order64From(a, b, i) ==
    IF i = 0 THEN 0
    ELSE IF a[i] < b[i] THEN -1
    ELSE IF a[i] > b[i] THEN 1
    ELSE Order64From(a, b, i - 1)

Order64(a, b) == Order64From(a, b, Len(a))

OneComponent(str) == Len(g_strsplit(str)) = 1

\* C11: when each string is one component, the sign of the result is the
\* order of the two parsed guint64 values: the int that holds their
\* difference is 0 only when they are equal and has the difference's sign.
C11_DifferenceKeepsSign ==
    (vpc = "done" /\ OneComponent(v1str) /\ OneComponent(v2str)) =>
        Sign(vret) = Order64(g_ascii_strtoull(g_strsplit(v1str)[1]).value,
                             g_ascii_strtoull(g_strsplit(v2str)[1]).value)

\* ---- monitors
\* rectangle i came before rectangle j in the array as passed, by x, then y,
\* then index
OrigBefore(i, j) ==
    LET a == displays_in[i]
        b == displays_in[j]
    IN \/ a.x < b.x
       \/ a.x = b.x /\ a.y < b.y
       \/ a.x = b.x /\ a.y = b.y /\ i < j

\* the place of rectangle i in that order, from 0
Rank(i) == Cardinality({j \in 1..Len(displays_in) : OrigBefore(j, i)})

SameSizes ==
    /\ Len(displays) = Len(displays_in)
    /\ \A i \in 1..Len(displays) :
          /\ displays[i].width = displays_in[i].width
          /\ displays[i].height = displays_in[i].height

\* C12: after virt_viewer_align_monitors_linear, in the order of the original
\* (x, y, index) the first rectangle has x = 0 and each next one has the x of
\* the one before it plus that one's width; every y is 0; every width and
\* height is as passed, at its index; an empty array stays empty.
C12_AlignedLeftToRight ==
    mpc = "aligned" =>
        /\ SameSizes
        /\ \A i \in 1..Len(displays) :
              /\ displays[i].y = 0
              /\ Rank(i) = 0 => displays[i].x = 0
              /\ \A j \in 1..Len(displays) :
                    Rank(j) = Rank(i) + 1 =>
                        displays[j].x = displays[i].x + displays[i].width

\* the rectangle passed second was the left one: it is placed at 0 and the
\* one passed first follows it
C12_Witness ==
    /\ mpc = "aligned"
    /\ Len(displays) = 2
    /\ displays_in[1].x > displays_in[2].x
    /\ displays_in[1].y # 0
    /\ displays[2].x = 0
    /\ displays[2].width > 0
    /\ displays[1].x = displays[2].width

\* the rectangles of the array as passed that have an area
NonDegenerate == {i \in 1..Len(displays_in) :
                     displays_in[i].width > 0 /\ displays_in[i].height > 0}

\* C13: after virt_viewer_shift_monitors_to_origin on an array with a
\* non-degenerate rectangle, the least x and the least y of the
\* non-degenerate rectangles are 0, whatever they were before.
C13_MinimumAtOrigin ==
    (mpc = "shifted" /\ NonDegenerate # {}) =>
        /\ \A i \in NonDegenerate : displays[i].x >= 0 /\ displays[i].y >= 0
        /\ \E i \in NonDegenerate : displays[i].x = 0
        /\ \E i \in NonDegenerate : displays[i].y = 0

\* C19: virt_viewer_shift_monitors_to_origin moves every non-degenerate
\* rectangle by one and the same (dx, dy), leaves the x and y of every
\* degenerate rectangle and every width and height as they were, and changes
\* nothing when no rectangle is non-degenerate.
C19_UniformTranslation ==
    mpc = "shifted" =>
        /\ SameSizes
        /\ \A i \in 1..Len(displays) \ NonDegenerate :
              displays[i].x = displays_in[i].x /\ displays[i].y = displays_in[i].y
        /\ \A i \in NonDegenerate : \A j \in NonDegenerate :
              /\ displays[i].x - displays_in[i].x = displays[j].x - displays_in[j].x
              /\ displays[i].y - displays_in[i].y = displays[j].y - displays_in[j].y
        /\ NonDegenerate = {} => displays = displays_in

\* a rectangle right of and below the origin was moved to it, and the
\* degenerate rectangle next to it stayed where it was
C19_Witness ==
    /\ mpc = "shifted"
    /\ Len(displays) = 2
    /\ NonDegenerate = {2}
    /\ displays_in[2].x > 0 /\ displays_in[2].y > 0
    /\ displays[2].x = 0 /\ displays[2].y = 0
    /\ displays_in[1].x > 0
    /\ displays[1].x = displays_in[1].x /\ displays[1].y = displays_in[1].y

\* ---- connection URIs
Asked(name) == name \in uri_out.asked

\* what a URI put together from the parts p is to give
ExpectedHost(p) == IF p.host.server = <<>> THEN LOCALHOST ELSE p.host.server
ExpectedTransport(p) == IF p.name.transport = <<>> THEN NullStr ELSE p.name.transport

\* the inputs to be taken for "xen:///": no string, the empty string, and
\* "xen" in any letter case
MeansXen(str) == str = NullStr \/ str = <<>> \/ g_ascii_strcasecmp(str, XEN) = 0

\* C14: for a URI put together from parts, the scheme returned is the text
\* before the first "+" of its scheme and the transport the text after it
\* (NULL without a "+"); the host returned is "localhost" when the URI has no
\* server and the server without its brackets otherwise; and no string, the
\* empty string or "xen" in any letter case gives scheme "xen", host
\* "localhost" and the return value 0.
C14_DecomposesUri ==
    upc = "done" =>
        /\ \A p \in UriParts :
              uristr = BuildUri(p) =>
                  /\ uret = 0
                  /\ Asked("host") => uri_out.host = ExpectedHost(p)
                  /\ (Asked("scheme") /\ p.name.scheme # <<>>) =>
                        uri_out.scheme = p.name.scheme
                  /\ (Asked("transport") /\ p.name.scheme # <<>>) =>
                        uri_out.transport = ExpectedTransport(p)
        /\ MeansXen(uristr) =>
              /\ uret = 0
              /\ Asked("scheme") => uri_out.scheme = XEN
              /\ Asked("host") => uri_out.host = LOCALHOST

\* the same without the empty string
C14_DecomposesNonEmptyUri ==
    (upc = "done" /\ uristr # <<>>) => C14_DecomposesUri

====
